---------------------------- MODULE Spec2Model ----------------------------
(***************************************************************************)
(* Nibworks ERP (src/app.py): browser sessions running main() against four *)
(* Google worksheets (Inventory, Sales, Nib Orders, Expenses) that are     *)
(* read and written as whole tables.                                       *)
(*                                                                         *)
(* A session's script run is: load the snapshots (lines 109-111), then the *)
(* handler of the widget that triggered the run.  Every worksheet read or  *)
(* write is one atomic step of the session; sessions interleave between    *)
(* these steps.  A store call may raise (ok = FALSE).                      *)
(*                                                                         *)
(* Money is modelled by integers (the floats of the code on whole values), *)
(* an ISO date string by its day number, currency symbols $ EUR-sign       *)
(* TRY-sign GBP-sign by "USD" "EUR" "TRY" "GBP".                           *)
(***************************************************************************)
EXTENDS Integers, Sequences, FiniteSets, TLC

VARIABLES
    sheetInventory,  \* worksheet "Inventory": sequence of item rows
    sheetSales,      \* worksheet "Sales": sequence of sale rows
    sheetOrders,     \* worksheet "Nib Orders": sequence of order rows
    sheetExpenses,   \* worksheet "Expenses": sequence of expense rows
    today,           \* date.today() as a day number
    inventory,       \* per session: the DataFrame `inventory` of main()
    nib_orders,      \* per session: the DataFrame `nib_orders` of main()
    pc,              \* per session: position in the script run
    call,            \* per session: locals of the register_sale call of this run
    result,          \* per session: outcome reported by the run's handler
    view             \* per session: what the Analytics tab displayed

vars == <<sheetInventory, sheetSales, sheetOrders, sheetExpenses, today,
          inventory, nib_orders, pc, call, result, view>>

storeVars == <<sheetInventory, sheetSales, sheetOrders, sheetExpenses, today>>

-----------------------------------------------------------------------------
(* Bounds of the model *)

MaxStock == 1
MaxSales == 2
MaxOrders == 2
MaxLedger == 2

Sessions == {"A", "B"}

\* inputs tried on the sale screen: entries of the currency selectbox of line
\* 155 (one with two sessions, two with a single session), one agreed price,
\* one typed exchange rate
SaleCurrencies == {"TRY"}
SoloCurrencies == {"EUR", "TRY"}
SalePrices == {2000}
RateInputs == {35}

-----------------------------------------------------------------------------
(* Values *)

NoCall ==
    [row_index |-> 0, final_selling_price |-> 0, sales_currency |-> "",
     exchange_rate |-> 0, normalized_cost |-> 0, current_stock |-> 0,
     item_name |-> "", sales_data |-> <<>>, read_failed |-> FALSE,
     banner |-> "", stored_stock |-> 0]

NoView ==
    [state |-> "none", orders_7d |-> 0, orders_30d |-> 0, pending |-> 0,
     summary |-> <<>>]

Item(brand, cost, cur, stock) ==
    [Brand |-> brand, PurchasePrice |-> cost, Currency |-> cur, Stock |-> stock]

IsPrefix(a, b) ==
    /\ Len(a) <= Len(b)
    /\ \A i \in 1..Len(a) : b[i] = a[i]

-----------------------------------------------------------------------------
(* DbManager *)

\* conn.update(worksheet=..., data=dataframe): the sheet becomes the dataframe
update_sheet(sheet, dataframe) == dataframe

\* lines 158-161: the rate stays 1.0 unless the sale currency differs
ExchangeRateAlwaysInput(sales_curr, item_currency, rate_input) == rate_input

ExchangeRate(sales_curr, item_currency, rate_input) ==
    IF sales_curr # item_currency THEN rate_input ELSE 1

\* lines 164-174: the cost shown on the screen and the margin banner
ScreenCost(cost, sales_curr, item_currency, exchange_rate) ==
    IF sales_curr # item_currency THEN cost * exchange_rate ELSE cost

Banner(final_price, cost) ==
    IF final_price < cost THEN "loss" ELSE "profit"

\* line 70
NormalizedCostNoRate(original_cost, exchange_rate) == original_cost

NormalizedCost(original_cost, exchange_rate) == original_cost * exchange_rate

\* line 74
OutOfStockOffByOne(current_stock) == current_stock < 0

OutOfStock(current_stock) == current_stock < 1

\* line 76
DecrementStockForgotten(inventory_df, row_index) == inventory_df

DecrementStock(inventory_df, row_index) ==
    [inventory_df EXCEPT ![row_index].Stock = inventory_df[row_index].Stock - 1]

\* lines 84-88 (the Date column, str(date.today()), is the variable today)
NewSale(c) ==
    [Date |-> today, ItemSold |-> c.item_name, Quantity |-> 1,
     SellingPrice |-> c.final_selling_price, Currency |-> c.sales_currency,
     CostPrice |-> c.normalized_cost, ExchangeRate |-> c.exchange_rate]

\* line 89
UpdatedSalesOverwrite(sales_data, new_sale) == <<new_sale>>

UpdatedSales(sales_data, new_sale) == Append(sales_data, new_sale)

-----------------------------------------------------------------------------
(* main(): snapshot load, lines 109-114 *)

Load(s) ==
    /\ pc[s] = "start"
    /\ \E ok \in BOOLEAN :
         IF ok
         THEN /\ inventory' = [inventory EXCEPT ![s] = sheetInventory]
              /\ nib_orders' = [nib_orders EXCEPT ![s] = sheetOrders]
              /\ pc' = [pc EXCEPT ![s] = "loaded"]
              /\ result' = [result EXCEPT ![s] = "none"]
              /\ call' = [call EXCEPT ![s] = NoCall]
              /\ view' = [view EXCEPT ![s] = NoView]
         ELSE \* st.error, st.stop: the run ends with nothing changed
              UNCHANGED <<inventory, nib_orders, pc, result, call, view>>
    /\ UNCHANGED storeVars

-----------------------------------------------------------------------------
(* Confirm Sale (lines 145-182) entering register_sale (lines 65-77) *)

ConfirmSale(s, currencies) ==
    /\ pc[s] = "loaded"
    /\ Len(sheetSales) < MaxSales
    /\ \E selected_idx \in DOMAIN inventory[s], final_price \in SalePrices,
          sales_curr \in currencies, rate_input \in RateInputs,
          ok \in BOOLEAN :
         LET row == inventory[s][selected_idx]
             item_currency == row.Currency
             exchange_rate == ExchangeRate(sales_curr, item_currency, rate_input)
             cost == ScreenCost(row.PurchasePrice, sales_curr, item_currency,
                                exchange_rate)
             current_stock == row.Stock
             locals ==
               [row_index |-> selected_idx,
                final_selling_price |-> final_price,
                sales_currency |-> sales_curr,
                exchange_rate |-> exchange_rate,
                normalized_cost |-> NormalizedCost(row.PurchasePrice, exchange_rate),
                current_stock |-> current_stock,
                item_name |-> row.Brand,
                sales_data |-> <<>>,
                read_failed |-> FALSE,
                banner |-> Banner(final_price, cost),
                \* history: the stored stock of the row when the call starts
                stored_stock |-> sheetInventory[selected_idx].Stock]
         IN  /\ call' = [call EXCEPT ![s] = locals]
             /\ IF OutOfStock(current_stock)
                THEN /\ result' = [result EXCEPT ![s] = "out_of_stock"]
                     /\ pc' = [pc EXCEPT ![s] = "start"]
                     /\ UNCHANGED <<inventory, sheetInventory>>
                ELSE /\ inventory' =
                          [inventory EXCEPT ![s] = DecrementStock(@, selected_idx)]
                     /\ IF ok
                        THEN /\ sheetInventory' =
                                  update_sheet(sheetInventory, inventory'[s])
                             /\ pc' = [pc EXCEPT ![s] = "read_sales"]
                             /\ UNCHANGED result
                        ELSE /\ result' = [result EXCEPT ![s] = "error"]
                             /\ pc' = [pc EXCEPT ![s] = "start"]
                             /\ UNCHANGED sheetInventory
    /\ UNCHANGED <<sheetSales, sheetOrders, sheetExpenses, today, nib_orders, view>>

\* lines 79-82: a failed read is replaced by an empty table
ReadSales(s) ==
    /\ pc[s] = "read_sales"
    /\ \E ok \in BOOLEAN :
         call' = [call EXCEPT ![s].sales_data = IF ok THEN sheetSales ELSE <<>>,
                              ![s].read_failed = ~ok]
    /\ pc' = [pc EXCEPT ![s] = "write_sales"]
    /\ UNCHANGED <<storeVars, inventory, nib_orders, result, view>>

\* lines 84-91
WriteSales(s) ==
    /\ pc[s] = "write_sales"
    /\ \E ok \in BOOLEAN :
         IF ok
         THEN /\ sheetSales' =
                   update_sheet(sheetSales,
                                UpdatedSales(call[s].sales_data, NewSale(call[s])))
              /\ result' = [result EXCEPT ![s] = "sold"]
         ELSE /\ result' = [result EXCEPT ![s] = "error"]
              /\ UNCHANGED sheetSales
    /\ pc' = [pc EXCEPT ![s] = "start"]
    /\ UNCHANGED <<sheetInventory, sheetOrders, sheetExpenses, today,
                   inventory, nib_orders, call, view>>

-----------------------------------------------------------------------------
(* The sale specification: two sessions selling from a two-row inventory *)

\* two inventory rows as load_inventory returns them (lines 36-42): numeric
\* Stock and Purchase Price, a Currency tag
InitialInventory ==
    << Item("Lamy", 50, "EUR", MaxStock), Item("Pilot", 2500, "TRY", MaxStock) >>

InitSessions ==
    /\ inventory = [s \in Sessions |-> <<>>]
    /\ nib_orders = [s \in Sessions |-> <<>>]
    /\ pc = [s \in Sessions |-> "start"]
    /\ call = [s \in Sessions |-> NoCall]
    /\ result = [s \in Sessions |-> "none"]
    /\ view = [s \in Sessions |-> NoView]

Init ==
    /\ sheetInventory = InitialInventory
    /\ sheetSales = <<>>
    /\ sheetOrders = <<>>
    /\ sheetExpenses = <<>>
    /\ today = 31
    /\ InitSessions

SaleStep(s, currencies) ==
    Load(s) \/ ConfirmSale(s, currencies) \/ ReadSales(s) \/ WriteSales(s)

Next == \E s \in Sessions : SaleStep(s, SaleCurrencies)

Spec == Init /\ [][Next]_vars

NextSolo == SaleStep("A", SoloCurrencies)

SpecSolo == Init /\ [][NextSolo]_vars

-----------------------------------------------------------------------------
(* Nib Services tab (lines 198-249) *)

\* a Date cell whose text is not a date
BadDate == -1

OrderPrices == {80, 90}
OrderNames == {"", "Ali"}

Order(d, name, status, price, cur) ==
    [Date |-> d, Name |-> name, Quantity |-> 1, Status |-> status,
     Price |-> price, Currency |-> cur]

\* lines 55-57: the given table followed by the new order, written whole
add_nib_order(df, order_data) == Append(df, order_data)

\* lines 59-61: the given table updated in place
update_nib_order(df, index, new_status, new_price) ==
    [df EXCEPT ![index].Status = new_status, ![index].Price = new_price]

\* line 231: datetime.strptime(str(row["Date"]), "%Y-%m-%d") returns
StrptimeOk(d) == d # BadDate

\* lines 223-224
Active(df) == {i \in DOMAIN df : df[i].Status = "In Progress"}

\* lines 210-219
CreateOrder(s) ==
    /\ pc[s] = "loaded"
    /\ Len(nib_orders[s]) < MaxOrders
    /\ \E n_name \in OrderNames, n_price \in OrderPrices, ok \in BOOLEAN :
         IF n_name = ""
         THEN /\ result' = [result EXCEPT ![s] = "name_required"]
              /\ UNCHANGED sheetOrders
         ELSE LET order_data == Order(today, n_name, "In Progress", n_price, "USD")
              IN  IF ok
                  THEN /\ sheetOrders' =
                            update_sheet(sheetOrders,
                                         add_nib_order(nib_orders[s], order_data))
                       /\ result' = [result EXCEPT ![s] = "order_added"]
                  ELSE /\ result' = [result EXCEPT ![s] = "error"]
                       /\ UNCHANGED sheetOrders
    /\ pc' = [pc EXCEPT ![s] = "start"]
    /\ UNCHANGED <<sheetInventory, sheetSales, sheetExpenses, today,
                   inventory, nib_orders, call, view>>

\* lines 229-244: the cards of the active orders are drawn in table order, each
\* after parsing its date; the button of card idx is reached only if the dates
\* of the cards up to it parsed
MarkCompleted(s) ==
    /\ pc[s] = "loaded"
    /\ \E idx \in Active(nib_orders[s]), new_p \in OrderPrices, ok \in BOOLEAN :
         /\ \A j \in Active(nib_orders[s]) :
               j <= idx => StrptimeOk(nib_orders[s][j].Date)
         /\ nib_orders' =
               [nib_orders EXCEPT ![s] = update_nib_order(@, idx, "Completed", new_p)]
         /\ IF ok
            THEN /\ sheetOrders' = update_sheet(sheetOrders, nib_orders'[s])
                 /\ result' = [result EXCEPT ![s] = "completed"]
            ELSE /\ result' = [result EXCEPT ![s] = "error"]
                 /\ UNCHANGED sheetOrders
    /\ pc' = [pc EXCEPT ![s] = "start"]
    /\ UNCHANGED <<sheetInventory, sheetSales, sheetExpenses, today,
                   inventory, call, view>>

\* lines 229-232 with no button pressed: a date that does not parse raises
\* ValueError and the run ends before the Analytics tab
RenderQueue(s) ==
    /\ pc[s] = "loaded"
    /\ IF \A j \in Active(nib_orders[s]) : StrptimeOk(nib_orders[s][j].Date)
       THEN /\ pc' = [pc EXCEPT ![s] = "analytics"]
            /\ UNCHANGED result
       ELSE /\ pc' = [pc EXCEPT ![s] = "start"]
            /\ result' = [result EXCEPT ![s] = "ValueError"]
    /\ UNCHANGED <<storeVars, inventory, nib_orders, call, view>>

-----------------------------------------------------------------------------
(* Analytics tab (lines 285-342) *)

\* program constants of lines 302, 303
Week == 7
Month == 30

RECURSIVE Sum(_)
Sum(xs) == IF xs = <<>> THEN 0 ELSE Head(xs) + Sum(Tail(xs))

InCurrency(rows, currency) == SelectSeq(rows, LAMBDA r : r.Currency = currency)

\* line 316: Series.unique() of the Currency column
UniqueCurrency(rows) == {rows[i].Currency : i \in DOMAIN rows}

\* line 298 and the comparison of lines 302-303: pd.to_datetime(errors='coerce')
\* gives NaT for a text that is no date, and NaT >= bound is False
Since(d, bound) == d # BadDate /\ d >= bound

\* lines 302-303, 306-307
OrdersSince(df, day, window) ==
    Len(SelectSeq(df, LAMBDA r : Since(r.Date, day - window)))

\* line 308
Pending(df) == Len(SelectSeq(df, LAMBDA r : r.Status = "In Progress"))

\* line 314
CompletedNibsAnyStatus(df) == df

CompletedNibs(df) == SelectSeq(df, LAMBDA r : r.Status = "Completed")

\* lines 316-317
AllCurrencies(sales_df, expense_df, completed_nibs) ==
    (UniqueCurrency(sales_df) \cup UniqueCurrency(expense_df)
       \cup UniqueCurrency(completed_nibs)) \ {""}

\* lines 325-333
CurrencySummary(currency, sales_df, expense_df, completed_nibs) ==
    LET sales == InCurrency(sales_df, currency)
        nibs == InCurrency(completed_nibs, currency)
        expenses == InCurrency(expense_df, currency)
        product_rev == Sum([i \in 1..Len(sales) |-> sales[i].SellingPrice])
        service_rev == Sum([i \in 1..Len(nibs) |-> nibs[i].Price])
        total_rev == product_rev + service_rev
        cogs == Sum([i \in 1..Len(sales) |-> sales[i].CostPrice])
        exp == Sum([i \in 1..Len(expenses) |-> expenses[i].Amount])
    IN  [revenue |-> total_rev, cogs |-> cogs, operatingExpense |-> exp,
         netProfit |-> total_rev - cogs - exp]

\* lines 314-339
ProfitByCurrency(sales_df, expense_df, df) ==
    LET completed_nibs == CompletedNibs(df)
    IN  [currency \in AllCurrencies(sales_df, expense_df, completed_nibs) |->
            CurrencySummary(currency, sales_df, expense_df, completed_nibs)]

\* lines 287-342; a failed read of Sales or Expenses is caught (line 341)
RenderAnalytics(s) ==
    /\ pc[s] = "analytics"
    /\ \E ok \in BOOLEAN :
         view' = [view EXCEPT ![s] =
            IF ok
            THEN [state |-> "shown",
                  orders_7d |-> OrdersSince(nib_orders[s], today, Week),
                  orders_30d |-> OrdersSince(nib_orders[s], today, Month),
                  pending |-> Pending(nib_orders[s]),
                  summary |-> ProfitByCurrency(sheetSales, sheetExpenses,
                                               nib_orders[s])]
            ELSE [NoView EXCEPT !.state = "waiting"]]
    /\ pc' = [pc EXCEPT ![s] = "start"]
    /\ UNCHANGED <<storeVars, inventory, nib_orders, call, result>>

-----------------------------------------------------------------------------
(* The order specification: two sessions creating and completing orders *)

InitOrders ==
    /\ sheetInventory = InitialInventory
    /\ sheetSales = <<>>
    /\ sheetOrders = << Order(31, "Veli", "In Progress", 80, "USD") >>
    /\ sheetExpenses = <<>>
    /\ today = 31
    /\ InitSessions

OrderStep(s) == Load(s) \/ CreateOrder(s) \/ MarkCompleted(s)

NextOrders == \E s \in Sessions : OrderStep(s)

SpecOrders == InitOrders /\ [][NextOrders]_vars

-----------------------------------------------------------------------------
(* The analytics specifications: one session viewing tables drawn from       *)
(* bounded sets                                                              *)

SeqsUpTo(S, n) == UNION {[1..k -> S] : k \in 0..n}

OrderDates == {0, 1, 23, 24, 31, BadDate}
Todays == {31, 32}
Tags == {"USD", "EUR", ""}
Statuses == {"In Progress", "Completed"}

ViewStep(s) == Load(s) \/ RenderQueue(s) \/ RenderAnalytics(s)

NextView == ViewStep("A")

InitVolume ==
    /\ sheetInventory = InitialInventory
    /\ sheetSales = <<>>
    /\ sheetExpenses = <<>>
    /\ sheetOrders \in
         SeqsUpTo({Order(d, "Ali", st, 80, "USD") : d \in OrderDates, st \in Statuses},
                  MaxOrders)
    /\ today \in Todays
    /\ InitSessions

SpecVolume == InitVolume /\ [][NextView]_vars

InitProfit ==
    /\ sheetInventory = InitialInventory
    /\ sheetSales \in
         SeqsUpTo({[Date |-> 31, ItemSold |-> "Lamy", Quantity |-> 1,
                    SellingPrice |-> 100, Currency |-> c, CostPrice |-> 60,
                    ExchangeRate |-> 1] : c \in Tags}, MaxLedger)
    /\ sheetExpenses \in
         SeqsUpTo({[Date |-> 31, Category |-> "Rent", Amount |-> 20,
                    Currency |-> c, Notes |-> ""] : c \in Tags}, MaxLedger)
    /\ sheetOrders \in
         SeqsUpTo({Order(31, "Ali", st, 80, c) : st \in Statuses, c \in Tags},
                  MaxOrders)
    /\ today = 31
    /\ InitSessions

SpecProfit == InitProfit /\ [][NextView]_vars

-----------------------------------------------------------------------------
(* Properties of register_sale *)

\* a step in which session s presses Confirm Sale and register_sale starts
SaleCalled(s) == pc[s] = "loaded" /\ call'[s] # NoCall

\* the snapshot of session s after line 76 acted on row i of `before`
Decremented(before, after, i) ==
    /\ Len(after) = Len(before)
    /\ after[i].Stock = before[i].Stock - 1
    /\ after[i].Brand = before[i].Brand
    /\ after[i].PurchasePrice = before[i].PurchasePrice
    /\ after[i].Currency = before[i].Currency
    /\ \A j \in DOMAIN before : j # i => after[j] = before[j]

RECURSIVE TotalStock(_)
TotalStock(rows) ==
    IF rows = <<>> THEN 0 ELSE Head(rows).Stock + TotalStock(Tail(rows))

StockNonNegative ==
    /\ \A i \in DOMAIN sheetInventory : sheetInventory[i].Stock >= 0
    /\ \A s \in Sessions : \A i \in DOMAIN inventory[s] : inventory[s][i].Stock >= 0

\* C1: no stock, stored or in a session's snapshot, is ever negative; and a
\* register_sale call on a row whose stock is 0 returns (False, Out of Stock),
\* changes no row of any snapshot or of the stored Inventory, and writes
\* nothing to Sales (the run ends without reaching the Sales steps).
C1_NeverNegative ==
    /\ []StockNonNegative
    /\ [][\A s \in Sessions :
            (SaleCalled(s) /\ inventory[s][call'[s].row_index].Stock = 0)
              => /\ result'[s] = "out_of_stock"
                 /\ pc'[s] = "start"
                 /\ inventory' = inventory
                 /\ sheetInventory' = sheetInventory
                 /\ sheetSales' = sheetSales]_vars

C1_Witness ==
    \E s \in Sessions :
        /\ result[s] = "out_of_stock"
        /\ call[s].current_stock = 0
        /\ sheetInventory[call[s].row_index].Stock = 0

\* C2: a call on row i with stock >= 1 decrements the stock of row i by
\* exactly 1 and leaves every other field and row alone, the Inventory write
\* stores that table, and the Sales write that follows an unfailed read makes
\* the stored Sales its previous contents followed by one record with
\* Quantity 1, the final price, the sale currency, cost = purchase price of
\* row i times the rate, and the rate.
C2_SaleEffect ==
    [][\A s \in Sessions :
         /\ (SaleCalled(s) /\ inventory[s][call'[s].row_index].Stock >= 1)
              => /\ result'[s] # "out_of_stock"
                 /\ Decremented(inventory[s], inventory'[s], call'[s].row_index)
                 /\ pc'[s] = "read_sales" => sheetInventory' = inventory'[s]
         /\ (pc[s] = "write_sales" /\ result'[s] = "sold" /\ ~call[s].read_failed)
              => LET n == Len(sheetSales)
                     c == call[s]
                     row == inventory[s][c.row_index]
                 IN  /\ Len(sheetSales') = n + 1
                     /\ IsPrefix(sheetSales, sheetSales')
                     /\ sheetSales'[n + 1].Quantity = 1
                     /\ sheetSales'[n + 1].SellingPrice = c.final_selling_price
                     /\ sheetSales'[n + 1].Currency = c.sales_currency
                     /\ sheetSales'[n + 1].CostPrice =
                            row.PurchasePrice * c.exchange_rate
                     /\ sheetSales'[n + 1].ExchangeRate = c.exchange_rate
                     /\ sheetSales'[n + 1].ItemSold = row.Brand]_vars

C2_Witness ==
    /\ result["A"] = "sold"
    /\ ~call["A"].read_failed
    /\ call["A"].exchange_rate = 35
    /\ Len(sheetSales) = 2
    /\ sheetSales[2].CostPrice = 1750
    /\ sheetInventory[1].Stock = MaxStock - 1

\* C3 as claimed: register_sale leaves the snapshot it is given as it was.
C3_InputUntouched ==
    [][\A s \in Sessions : SaleCalled(s) => inventory'[s] = inventory[s]]_vars

\* C3 amended: register_sale updates the snapshot it is given in place: after
\* a call that passes the stock check the caller's snapshot holds the
\* decremented stock and that same table is what the Inventory write stores;
\* after an Out of Stock failure the snapshot is as it was.
C3_InPlaceUpdate ==
    [][\A s \in Sessions :
         SaleCalled(s) =>
            IF result'[s] = "out_of_stock"
            THEN inventory'[s] = inventory[s]
            ELSE /\ Decremented(inventory[s], inventory'[s], call'[s].row_index)
                 /\ pc'[s] = "read_sales" => sheetInventory' = inventory'[s]]_vars

C3_Witness ==
    \E s \in Sessions :
        /\ pc[s] = "read_sales"
        /\ inventory[s][call[s].row_index].Stock = call[s].current_stock - 1
        /\ sheetInventory = inventory[s]

\* C4: in every register_sale call made by the sale screen, and in every
\* stored sale, a sale currency equal to the item's purchase currency comes
\* with rate 1 and cost = purchase price; a rate other than 1 comes only with
\* differing currencies; cost = purchase price x rate (50 x 35 = 1750, and a
\* final price of 2000 is reported as a profit of 250).
C4_RateRule ==
    /\ \A s \in Sessions :
         call[s] # NoCall =>
            LET c == call[s]
                row == inventory[s][c.row_index]
            IN  /\ c.sales_currency = row.Currency
                     => c.exchange_rate = 1 /\ c.normalized_cost = row.PurchasePrice
                /\ c.exchange_rate # 1 => c.sales_currency # row.Currency
                /\ c.normalized_cost = row.PurchasePrice * c.exchange_rate
                /\ (row.PurchasePrice = 50 /\ c.exchange_rate = 35
                      /\ c.final_selling_price = 2000)
                     => /\ c.normalized_cost = 1750
                        /\ c.banner = "profit"
                        /\ c.final_selling_price - c.normalized_cost = 250
    /\ \A k \in DOMAIN sheetSales :
         \E i \in DOMAIN sheetInventory :
            LET r == sheetSales[k]
                row == sheetInventory[i]
            IN  /\ r.ItemSold = row.Brand
                /\ r.CostPrice = row.PurchasePrice * r.ExchangeRate
                /\ r.Currency = row.Currency
                     => r.ExchangeRate = 1 /\ r.CostPrice = row.PurchasePrice
                /\ r.ExchangeRate # 1 => r.Currency # row.Currency

C4_Witness ==
    \E j, k \in DOMAIN sheetSales :
        /\ sheetSales[j].Currency = "TRY"
        /\ sheetSales[j].ItemSold = "Pilot"
        /\ sheetSales[j].ExchangeRate = 1
        /\ sheetSales[k].Currency = "TRY"
        /\ sheetSales[k].ItemSold = "Lamy"
        /\ sheetSales[k].CostPrice = 1750

\* C5: the stored Sales table only grows at its end: its contents before a
\* step are a prefix of its contents after it, also when the read of the Sales
\* worksheet fails.
C5_AppendOnly == [][IsPrefix(sheetSales, sheetSales')]_vars

\* session f and then session g ran register_sale on the same row, each from a
\* snapshot loaded with stock s >= 1 before either wrote: f wrote Inventory
\* while the sheet still held s, g wrote it while the sheet held f's s - 1.
\* Both runs are over and no store call raised.
LostUpdateRace(f, g) ==
    /\ pc[f] = "start" /\ pc[g] = "start"
    /\ call[f] # NoCall /\ call[g] # NoCall
    /\ call[f].row_index = call[g].row_index
    /\ call[f].current_stock = call[g].current_stock
    /\ call[f].current_stock >= 1
    /\ call[f].stored_stock = call[f].current_stock
    /\ call[g].stored_stock = call[g].current_stock - 1
    /\ result[f] # "error" /\ result[g] # "error"
    /\ ~call[f].read_failed /\ ~call[g].read_failed

BothSessionsSold == LostUpdateRace("A", "B") \/ LostUpdateRace("B", "A")

SalesBefore ==
    IF Len(call["A"].sales_data) <= Len(call["B"].sales_data)
    THEN call["A"].sales_data ELSE call["B"].sales_data

C10_AllOrNothing ==
    pc["A"] \in {"start", "loaded"} =>
        TotalStock(InitialInventory) - TotalStock(sheetInventory) = Len(sheetSales)

-----------------------------------------------------------------------------
(* Properties of the service orders and of the analytics *)

\* C6: every stored order is created 'In Progress' (a new last row is In
\* Progress), and an order stored as 'Completed' stays stored, Completed and
\* with the same price, whatever create-order or mark-completed action follows.
C6_OneWay ==
    [][/\ \A i \in DOMAIN sheetOrders :
             sheetOrders[i].Status = "Completed"
               => /\ i \in DOMAIN sheetOrders'
                  /\ sheetOrders'[i].Status = "Completed"
                  /\ sheetOrders'[i].Price = sheetOrders[i].Price
       /\ \A s \in Sessions :
             (pc[s] = "loaded" /\ result'[s] = "order_added")
               => sheetOrders'[Len(sheetOrders')].Status = "In Progress"]_vars

RECURSIVE SumOver(_, _)
SumOver(f, I) ==
    IF I = {} THEN 0
    ELSE LET i == CHOOSE j \in I : TRUE IN f[i] + SumOver(f, I \ {i})

Rows(rows, c) == {i \in DOMAIN rows : rows[i].Currency = c}

CompletedRows(rows, c) ==
    {i \in DOMAIN rows : rows[i].Currency = c /\ rows[i].Status = "Completed"}

SellingPrices == [i \in DOMAIN sheetSales |-> sheetSales[i].SellingPrice]
CostPrices == [i \in DOMAIN sheetSales |-> sheetSales[i].CostPrice]
Amounts == [i \in DOMAIN sheetExpenses |-> sheetExpenses[i].Amount]
OrderPriceOf(s) == [i \in DOMAIN nib_orders[s] |-> nib_orders[s][i].Price]

TagsOf(rows) == {rows[i].Currency : i \in DOMAIN rows}

\* the sums the summary of currency c must show
SummaryIsRight(s, c) ==
    LET S == view[s].summary[c]
        revenue == SumOver(SellingPrices, Rows(sheetSales, c))
                     + SumOver(OrderPriceOf(s), CompletedRows(nib_orders[s], c))
        cogs == SumOver(CostPrices, Rows(sheetSales, c))
        operatingExpense == SumOver(Amounts, Rows(sheetExpenses, c))
    IN  /\ S.revenue = revenue
        /\ S.cogs = cogs
        /\ S.operatingExpense = operatingExpense
        /\ S.netProfit = revenue - cogs - operatingExpense

RevenueAdded(s) ==
    LET revenues == [c \in DOMAIN view[s].summary |-> view[s].summary[c].revenue]
    IN  SumOver(revenues, DOMAIN view[s].summary)
          = SumOver(SellingPrices, {i \in DOMAIN sheetSales : sheetSales[i].Currency # ""})
            + SumOver(OrderPriceOf(s),
                      {i \in DOMAIN nib_orders[s] :
                          /\ nib_orders[s][i].Currency # ""
                          /\ nib_orders[s][i].Status = "Completed"})

C9_VolumeCounters ==
    \A s \in Sessions :
        /\ result[s] # "ValueError"
        /\ view[s].state = "shown" =>
             LET df == nib_orders[s]
             IN  /\ view[s].orders_7d =
                       Cardinality({i \in DOMAIN df :
                           df[i].Date # BadDate /\ df[i].Date >= today - 7})
                 /\ view[s].orders_30d =
                       Cardinality({i \in DOMAIN df :
                           df[i].Date # BadDate /\ df[i].Date >= today - 30})
                 /\ view[s].pending =
                       Cardinality({i \in DOMAIN df : df[i].Status = "In Progress"})

=============================================================================
